---- MODULE Spec2Model ----
(***************************************************************************)
(* The live feedback overlay pipeline of slouchless.                       *)
(*                                                                         *)
(* The viewer process channel (src/popup/ffplay_feedback.py) is the two    *)
(* module-level variables _ffplay_feedback and _ffplay_feedback_closed     *)
(* plus the spawned ffplay processes.  The coordinator is                  *)
(* FeedbackManager.run() (src/popup/feedback_manager.py) with the          *)
(* _infer_worker thread each session starts.                               *)
(*                                                                         *)
(* Calls are bound by name and argument lists are not modelled: run()      *)
(* passes an fps keyword that the functions of ffplay_feedback.py do not   *)
(* declare, and the model follows the call into the named function.        *)
(* The environment (DISPLAY, the ffplay binary on PATH) is read anew by    *)
(* every call.                                                             *)
(*                                                                         *)
(* Time is counted in ticks and kept relative to now: since[s] is          *)
(* min(now - last, Interval) of worker s, and every next_inference_at is   *)
(* stored as max(next_inference_at - now, -1); Tick advances now.          *)
(*                                                                         *)
(* The lock, frame slot and status are locals of one run() call, shared    *)
(* with its worker from the start of the worker (line 92) to the return of *)
(* run().  The variables hold them for that time.  The worker of a run()   *)
(* that has returned reads and writes its own, which no other thread reads *)
(* any more, and its steps change none of the variables.                   *)
(*                                                                         *)
(* The compositor, render_feedback_frame() (src/popup/overlay.py), is a    *)
(* function of its arguments and of the font files that load; it is        *)
(* modelled as one call, under RenderSpec.  The channel calls of run()     *)
(* carry the frame, the status and the countdown they are made with.       *)
(*                                                                         *)
(* Threads: the driving thread (calls open/write/close and run()), a       *)
(* second thread that may call shutdown_popup_worker() at any time, one    *)
(* worker thread per session, and the viewer processes, which may exit at  *)
(* any time.                                                               *)
(***************************************************************************)
EXTENDS Integers, FiniteSets, Sequences, TLC

\* Bounds of the model.
MaxProcs == 2
MaxRuns == 2
\* self.interval_s (feedback_manager.py:19) in ticks.
Interval == 2

\* The longest side of a source frame and of the canvas, in pixels.
MaxSide == 3
\* The most words of a message.
MaxWords == 3
\* Captured frames are told apart up to this many; later ones count as the
\* last.
MaxFrames == 2

None == 0

Pids == 1..MaxProcs
Sessions == 1..MaxRuns

VARIABLES
    ffplay_feedback,         \* _ffplay_feedback: None or the pid of the held handle
    ffplay_feedback_closed,  \* _ffplay_feedback_closed: the closed latch
    proc,                    \* pid -> "unspawned" | "alive" | "terminating" | "dead"
    stdin,                   \* pid -> "open" | "closed": our end of the input pipe
    pc,                      \* position of the driving thread
    ctx,                     \* the caller of the channel call in progress
    p_open,                  \* local p of the open_feedback_window() in progress
    ff_send,                 \* local ff of the send_feedback_frame() in progress
    sent,                    \* the arguments of that call
    nrun,                    \* number of inference workers started so far
    stop_inference,          \* session -> its stop_inference event is set
    wpc,                     \* session -> position of its _infer_worker thread
    since,                   \* session -> min(now - last, Interval) of its worker
    detector,                \* self.detector: what its analyze() calls do
    overlay_lock,            \* holder of overlay_lock: "free" | "pump" | "worker"
    latest_frame,            \* latest_frame["img"]: 0 is initial_image, n the
                             \* n-th frame the pump captured
    overlay,                 \* the overlay dict: the shared status
                             \* (the four above: of the session being pumped)
    snapshot,                \* the pump's locals k, m, r, next_at
    w_frame,                 \* the worker's local frame
    w_out,                   \* the outcome of the worker's analyze() call
    published,               \* history: the status as of the last completed update
    w_age,                   \* history: ticks since the worker of the session
                             \* being pumped was started, at most Interval
    run_exit,                \* history: why the last run() left its pump loop
    run_res,                 \* outcome of the last run() call
    ev,                      \* history: the last completed channel call of the
                             \* driving thread: op, res, why; latch and open are
                             \* the latch and IsOpen when it returned, after is
                             \* sendFailed when it was made, prev the call before
    sendFailed,              \* history: a write() returned false since the last open()
    r_pc,                    \* position of the render_feedback_frame() call
    r_args,                  \* its arguments
    r_ret                    \* what it returned: the content of the encoded frame

chanVars == <<ffplay_feedback, ffplay_feedback_closed, proc, stdin>>
callVars == <<pc, ctx, p_open, ff_send, sent>>
workerVars == <<nrun, stop_inference, wpc, since>>
sessVars == <<detector, overlay_lock, latest_frame, overlay, snapshot,
              w_frame, w_out, published, w_age, run_exit>>
rendVars == <<r_pc, r_args, r_ret>>
vars == <<ffplay_feedback, ffplay_feedback_closed, proc, stdin, pc, ctx, p_open,
          ff_send, sent, nrun, stop_inference, wpc, since, run_res, ev, sendFailed,
          detector, overlay_lock, latest_frame, overlay, snapshot, w_frame,
          w_out, published, w_age, run_exit, r_pc, r_args, r_ret>>

\* ffplay_feedback.py:41/85/136/151  proc.poll() is None
Alive(p) == proc[p] \in {"alive", "terminating"}

Spawned == {p \in Pids : proc[p] # "unspawned"}

LiveProcs == {p \in Pids : Alive(p)}

\* The channel is Open: a handle is held and its process has not exited.
IsOpen == ffplay_feedback # None /\ Alive(ffplay_feedback)

\* Classifier calls in flight: workers inside detector.analyze().
InFlight == {s \in Sessions : wpc[s] = "analyze"}

\* The detectors a FeedbackManager is built with (feedback_manager.py:16-17):
\* one whose analyze() returns a good or a bad result or raises, one that
\* raises on every call, one that always returns kind "bad" with "slouch",
\* and one whose results are malformed.
Detectors == {"any", "raising", "slouch", "malformed"}

\* What one analyze() call of detector d does (detector.py:159-174, or an
\* exception).  A malformed result is a mapping without the keys ("nokind":
\* the empty dict) or not a mapping at all ("notmapping": None).
Outcomes(d) ==
    CASE d = "raising" -> {"raised"}
      [] d = "slouch" -> {"bad"}
      [] d = "malformed" -> {"nokind", "notmapping"}
      [] OTHER -> {"good", "bad", "raised"}

\* An except branch that leaves the kind "bad".
StatusOfRaisedAsBad(o) ==
    CASE o = "good" ->
           [kind |-> "good", message |-> "good posture!", raw_output |-> "No"]
      [] o = "bad" ->
           [kind |-> "bad", message |-> "slouch", raw_output |-> "Yes, slouch"]
      [] o = "nokind" ->
           [kind |-> "error", message |-> "error", raw_output |-> ""]
      [] o = "notmapping" ->
           [kind |-> "error",
            message |-> "AttributeError: 'NoneType' object has no attribute 'get'",
            raw_output |-> ""]
      [] OTHER ->
           [kind |-> "bad", message |-> "RuntimeError: failed", raw_output |-> ""]

\* A worker that writes str(result.get("kind")) without the default.
StatusOfNoDefault(o) ==
    CASE o = "good" ->
           [kind |-> "good", message |-> "good posture!", raw_output |-> "No"]
      [] o = "bad" ->
           [kind |-> "bad", message |-> "slouch", raw_output |-> "Yes, slouch"]
      [] o = "nokind" ->
           [kind |-> "None", message |-> "None", raw_output |-> "None"]
      [] o = "notmapping" ->
           [kind |-> "error",
            message |-> "AttributeError: 'NoneType' object has no attribute 'get'",
            raw_output |-> ""]
      [] OTHER ->
           [kind |-> "error", message |-> "RuntimeError: failed", raw_output |-> ""]

\* Lines 80-82 and 86-88: kind, message and raw_output written for outcome o.
\* A missing or empty value is replaced by its default (x or "error", x or
\* "").  When the result is not a mapping, result.get raises AttributeError
\* at line 80 before anything is assigned: the with block of line 79 is left
\* with the status untouched and the except branch writes the three fields,
\* as for an exception of analyze().
StatusOf(o) ==
    CASE o = "good" ->
           [kind |-> "good", message |-> "good posture!", raw_output |-> "No"]
      [] o = "bad" ->
           [kind |-> "bad", message |-> "slouch", raw_output |-> "Yes, slouch"]
      [] o = "nokind" ->
           [kind |-> "error", message |-> "error", raw_output |-> ""]
      [] o = "notmapping" ->
           [kind |-> "error",
            message |-> "AttributeError: 'NoneType' object has no attribute 'get'",
            raw_output |-> ""]
      [] OTHER ->
           [kind |-> "error", message |-> "RuntimeError: failed", raw_output |-> ""]

\* Lines 40-45: the status a session starts with; next_inference_at is now.
InitialStatus ==
    [kind |-> "bad", message |-> "analyzing...", raw_output |-> "",
     next_inference_at |-> 0]

\* No status: before the first session, and the pump's locals outside a tick.
NoStatus ==
    [kind |-> "none", message |-> "none", raw_output |-> "none",
     next_inference_at |-> 0]

\* No send_feedback_frame() call of run() is in progress.
NoSent ==
    [image |-> 0, kind |-> "none", message |-> "none", raw_output |-> "none",
     countdown_secs |-> 0]

\* A run() that sends the pump's locals in every call.
SendArgsSnapshot(c) ==
    [image |-> latest_frame, kind |-> snapshot.kind,
     message |-> snapshot.message, raw_output |-> snapshot.raw_output,
     countdown_secs |-> IF snapshot.next_inference_at < 0 THEN 0
                        ELSE snapshot.next_inference_at]

\* A run() that sends next_at - time.time() as it is.
SendArgsUnclamped(c) ==
    CASE c = "run_init" ->
           [image |-> 0, kind |-> InitialStatus.kind,
            message |-> InitialStatus.message,
            raw_output |-> InitialStatus.raw_output, countdown_secs |-> 0]
      [] c = "run_pump" ->
           [image |-> latest_frame, kind |-> snapshot.kind,
            message |-> snapshot.message, raw_output |-> snapshot.raw_output,
            countdown_secs |-> snapshot.next_inference_at]
      [] OTHER -> NoSent

\* The arguments run() calls send_feedback_frame() with.  Lines 48-56:
\* initial_image, the three fields the status starts with and
\* countdown_secs=0.0.  Lines 108-118: the captured frame img, the pump's
\* locals k, m, r and max(0.0, next_at - time.time()).  The arguments of a
\* call that is not made by run() are not modelled.
SendArgs(c) ==
    CASE c = "run_init" ->
           [image |-> 0, kind |-> InitialStatus.kind,
            message |-> InitialStatus.message,
            raw_output |-> InitialStatus.raw_output, countdown_secs |-> 0]
      [] c = "run_pump" ->
           [image |-> latest_frame, kind |-> snapshot.kind,
            message |-> snapshot.message, raw_output |-> snapshot.raw_output,
            countdown_secs |-> IF snapshot.next_inference_at < 0 THEN 0
                               ELSE snapshot.next_inference_at]
      [] OTHER -> NoSent

\* The session being pumped: its worker has been started and its run() has
\* not returned (the event is set when run() returns, line 128); 0 if none.
cur == IF nrun > 0 /\ ~stop_inference[nrun] THEN nrun ELSE 0

\* Workers that share the lock, the frame slot and the status of whichever
\* session is being pumped, as if these were kept on the FeedbackManager.
OwnsAny(s) == cur # 0

\* Lines 38-45, 58 and 60: the lock, the frame slot, the status and the event
\* are locals of run() that _infer_worker closes over, so the worker of
\* session s reads and writes those of the call that started it, and these
\* are the ones the pump uses only while that call is being pumped.
Owns(s) == s = cur

\* Workers that have been started and have not left their loop.
Running == {s \in Sessions : wpc[s] \notin {"none", "done"}}

----------------------------------------------------------------------------
\* render_feedback_frame() (src/popup/overlay.py), a function of its
\* arguments and of the font files that can be loaded.  A size is <<width,
\* height>>.  A message is None or its whitespace-separated words, each word
\* given by the number of its characters that are not in bad_chars (line 94);
\* countdown_secs is in hundredths of a second.

\* overlay.py:174
max_chars == 45

Kinds == {"good", "bad", "error", "other"}

WordLens == {0, 20, 46}

Texts == UNION {[1..n -> WordLens] : n \in 0..MaxWords}

Messages ==
    {[none |-> TRUE, words |-> <<>>]}
        \cup {[none |-> FALSE, words |-> ws] : ws \in Texts}

Countdowns == {-104, 104}

Sizes == (1..MaxSide) \X (1..MaxSide)

\* The sizes of the source frame.
Frames == Sizes

\* Lines 136-137: the two font files under assets/.
FontFiles == {"honk", "glitch"}

\* The calls of render_feedback_frame(); assets are the font files that
\* ImageFont.truetype() can load.
RenderArgs ==
    [image : Frames, kind : Kinds, message : Messages,
     countdown_secs : Countdowns, thumbnail_size : Sizes,
     assets : SUBSET FontFiles]

NoArgs ==
    [image |-> <<1, 1>>, kind |-> "none",
     message |-> [none |-> TRUE, words |-> <<>>], countdown_secs |-> 0,
     thumbnail_size |-> <<1, 1>>, assets |-> {}]

NoFrame ==
    [result |-> "none", size |-> <<0, 0>>, img |-> <<0, 0>>,
     paste |-> <<0, 0>>, color |-> "none", headline |-> "none",
     icon |-> "none", fonts |-> <<"none", "none", "none">>,
     countdown_text |-> [minus |-> FALSE, tenths |-> 0], lines |-> <<>>]

Abs(n) == IF n < 0 THEN -n ELSE n

AtLeast(n, low) == IF n < low THEN low ELSE n

\* A canvas of the size of the source frame.
NewCanvasOfImage(image, size) == image

\* Line 112: Image.new("RGB", (int(w), int(h)), ...)
NewCanvas(image, size) == size

\* A frame resized to the canvas, whatever its size.
ThumbnailResize(image, size) == size

\* Line 114: img.thumbnail((int(w), int(h))): an image that fits is left as
\* it is; otherwise the side that the aspect ratio makes smaller is
\* round_aspect() of its exact value: of floor and ceiling the one whose
\* ratio is nearer (the floor on a tie), and at least 1.
Thumbnail(image, size) ==
    LET W == image[1]
        H == image[2]
        x == size[1]
        y == size[2]
        floor_x == (y * W) \div H
        ceil_x == IF (y * W) % H = 0 THEN floor_x ELSE floor_x + 1
        floor_y == (x * H) \div W
        ceil_y == IF (x * H) % W = 0 THEN floor_y ELSE floor_y + 1
    IN  IF x >= W /\ y >= H
        THEN image
        ELSE IF x * H >= y * W
        THEN <<AtLeast(IF Abs(W * y - floor_x * H) <= Abs(W * y - ceil_x * H)
                       THEN floor_x ELSE ceil_x, 1), y>>
        ELSE <<x, AtLeast(IF \/ floor_y = 0
                             \/ Abs(W * floor_y - x * H) * ceil_y
                                  <= Abs(W * ceil_y - x * H) * floor_y
                          THEN floor_y ELSE ceil_y, 1)>>

\* Line 115: the paste position.
PasteAt(size, img) == <<(size[1] - img[1]) \div 2, (size[2] - img[2]) \div 2>>

\* Lines 118-126: accent colour and headline; the colours are (34, 197, 94),
\* (239, 68, 68) and (245, 158, 11).
Headline(kind) ==
    IF kind = "good" THEN [color |-> "green", headline |-> "GOOD POSTURE"]
    ELSE IF kind = "bad" THEN [color |-> "red", headline |-> "BAD POSTURE"]
    ELSE [color |-> "amber", headline |-> "MODEL ERROR"]

\* An icon that draws the triangle for the kind "error" only.
DrawIconNamedError(kind) ==
    IF kind = "good" THEN "checkmark"
    ELSE IF kind = "error" THEN "triangle"
    ELSE "cross"

\* Lines 22-88: _draw_icon(): green disc with a checkmark, red cross, or the
\* amber warning triangle.
DrawIcon(kind) ==
    IF kind = "good" THEN "checkmark"
    ELSE IF kind = "bad" THEN "cross"
    ELSE "triangle"

\* A font loader without the fallback.
LoadFontOrRaise(path, assets) ==
    IF path \in assets THEN "truetype" ELSE "raise"

\* Lines 14-19: _load_font(): any exception of ImageFont.truetype() is
\* answered with ImageFont.load_default().
LoadFont(path, assets) ==
    IF path \in assets THEN "truetype" ELSE "default"

\* Lines 136-143 and 152: main_font, sub_font and countdown_font.
Fonts(kind, assets) ==
    IF kind = "good"
    THEN <<LoadFont("honk", assets), LoadFont("honk", assets),
           LoadFont("glitch", assets)>>
    ELSE <<LoadFont("glitch", assets), LoadFont("glitch", assets),
           LoadFont("glitch", assets)>>

\* Line 153: f"Next: {countdown_secs:.1f}s": the sign of the value and its
\* magnitude rounded to tenths.
CountdownText(countdown_secs) ==
    [minus |-> countdown_secs < 0,
     tenths |-> (Abs(countdown_secs) + 5) \div 10]

\* Lines 91-96: _strip_known_emoji_tofu(): the characters of bad_chars are
\* removed and whitespace is collapsed; a word made of them alone vanishes.
StripKnownEmojiTofu(words) == SelectSeq(words, LAMBDA n : n > 0)

RECURSIVE Sum(_)
Sum(ns) == IF ns = <<>> THEN 0 ELSE Head(ns) + Sum(Tail(ns))

\* len() of words joined by single spaces.
TextLen(words) == IF words = <<>> THEN 0 ELSE Sum(words) + Len(words) - 1

\* A word-wrap that starts the next line empty, losing the word that did
\* not fit.
RECURSIVE WordWrapDropping(_, _, _)
WordWrapDropping(words, current_line, lines) ==
    IF words = <<>>
    THEN IF current_line # <<>> THEN Append(lines, current_line) ELSE lines
    ELSE IF TextLen(current_line) + Head(words) + 1 <= max_chars
    THEN WordWrapDropping(Tail(words), Append(current_line, Head(words)), lines)
    ELSE WordWrapDropping(Tail(words), <<>>,
                          IF current_line # <<>> THEN Append(lines, current_line)
                          ELSE lines)

\* Lines 180-188: the word-wrap loop and the append after it.
RECURSIVE WordWrap(_, _, _)
WordWrap(words, current_line, lines) ==
    IF words = <<>>
    THEN IF current_line # <<>> THEN Append(lines, current_line) ELSE lines
    ELSE IF TextLen(current_line) + Head(words) + 1 <= max_chars
    THEN WordWrap(Tail(words), Append(current_line, Head(words)), lines)
    ELSE WordWrap(Tail(words), <<Head(words)>>,
                  IF current_line # <<>> THEN Append(lines, current_line)
                  ELSE lines)

\* Every wrapped line kept.
KeptLinesAll(lines) == lines

\* Line 189: lines[:2]
KeptLines(lines) == SubSeq(lines, 1, IF Len(lines) < 2 THEN Len(lines) ELSE 2)

\* Lines 171-196: the lines of text drawn below the countdown, each line the
\* words on it.
MessageLines(message) ==
    LET msg_clean ==
            StripKnownEmojiTofu(IF message.none THEN <<>> ELSE message.words)
    IN  IF msg_clean = <<>> THEN <<>>
        ELSE IF TextLen(msg_clean) > max_chars
        THEN KeptLines(WordWrap(msg_clean, <<>>, <<>>))
        ELSE <<msg_clean>>

\* Lines 99-200: the frame that is encoded, or the exception raised.
render_feedback_frame(a) ==
    LET canvas == NewCanvas(a.image, a.thumbnail_size)
        img == Thumbnail(a.image, a.thumbnail_size)
        fonts == Fonts(a.kind, a.assets)
    IN  IF \E i \in 1..3 : fonts[i] = "raise"
        THEN [NoFrame EXCEPT !.result = "raise"]
        ELSE [result |-> "bytes", size |-> canvas, img |-> img,
              paste |-> PasteAt(canvas, img),
              color |-> Headline(a.kind).color,
              headline |-> Headline(a.kind).headline,
              icon |-> DrawIcon(a.kind), fonts |-> fonts,
              countdown_text |-> CountdownText(a.countdown_secs),
              lines |-> MessageLines(a.message)]

\* One call of render_feedback_frame().
RenderFeedbackFrame ==
    /\ r_pc = "call"
    /\ r_ret' = render_feedback_frame(r_args)
    /\ r_pc' = IF r_ret'.result = "raise" THEN "raised" ELSE "returned"
    /\ UNCHANGED <<chanVars, callVars, workerVars, run_res, ev, sendFailed,
                   sessVars, r_args>>

\* The channel and the coordinator when the module is loaded and a
\* FeedbackManager has been built.
Constructed ==
    /\ ffplay_feedback = None
    /\ ffplay_feedback_closed = FALSE
    /\ proc = [p \in Pids |-> "unspawned"]
    /\ stdin = [p \in Pids |-> "open"]
    /\ pc = "idle"
    /\ ctx = "none"
    /\ p_open = None
    /\ ff_send = None
    /\ sent = NoSent
    /\ nrun = 0
    /\ stop_inference = [s \in Sessions |-> FALSE]
    /\ wpc = [s \in Sessions |-> "none"]
    /\ since = [s \in Sessions |-> Interval]
    /\ run_res = "none"
    /\ ev = [op |-> "none", res |-> "none", why |-> "none", latch |-> FALSE,
             open |-> FALSE, after |-> FALSE, prev |-> "none", n |-> 0]
    /\ sendFailed = FALSE
    /\ detector \in Detectors
    /\ overlay_lock = "free"
    /\ latest_frame = 0
    /\ overlay = NoStatus
    /\ snapshot = NoStatus
    /\ w_frame = 0
    /\ w_out = "none"
    /\ published = NoStatus
    /\ w_age = 0
    /\ run_exit = "none"

Init ==
    /\ Constructed
    /\ r_pc = "none"
    /\ r_args = NoArgs
    /\ r_ret = NoFrame

\* render_feedback_frame() is called with any arguments of the bounds.
RenderInit ==
    /\ Constructed
    /\ detector = "slouch"
    /\ r_pc = "call"
    /\ r_args \in RenderArgs
    /\ r_ret = NoFrame

----------------------------------------------------------------------------
\* Calls and returns of the driving thread.

\* A pump that tries again after a write that is False.
AfterCallRetry(c, res) ==
    CASE c = "run_open" -> IF res = "ok" THEN "run_init_send" ELSE "idle"
      [] c = "run_init" -> IF res = "raise" THEN "idle" ELSE "run_start"
      [] c = "run_pump" -> IF res = "raise" THEN "run_finally" ELSE "pump_sleep"
      [] OTHER -> "idle"

\* Where the caller continues when a channel call made in context c ends with
\* res.  feedback_manager.py: line 36 and line 48 are outside the try block,
\* so an exception there leaves run(); the pump's send (line 110) breaks the
\* loop on False (line 119) and is inside the try block (lines 125-128).
AfterCall(c, res) ==
    CASE c = "run_open" -> IF res = "ok" THEN "run_init_send" ELSE "idle"
      [] c = "run_init" -> IF res = "raise" THEN "idle" ELSE "run_start"
      [] c = "run_pump" -> IF res = "true" THEN "pump_sleep" ELSE "run_finally"
      [] OTHER -> "idle"

RunResAfter(c, res) ==
    IF c \in {"run_open", "run_init"} /\ AfterCall(c, res) = "idle"
    THEN "raised"
    ELSE run_res

\* A channel call made in context c returns (or raises).  The channel
\* variables of the next state are fixed by the caller of this operator.
Return(c, op, res, why, after) ==
    /\ pc' = AfterCall(c, res)
    /\ ctx' = "none"
    /\ p_open' = None
    /\ ff_send' = None
    /\ sent' = NoSent
    /\ run_res' = RunResAfter(c, res)
    /\ ev' = [op |-> op, res |-> res, why |-> why,
              latch |-> ffplay_feedback_closed', open |-> IsOpen',
              after |-> after, prev |-> ev.op, n |-> 1 - ev.n]

----------------------------------------------------------------------------
\* The viewer process.

\* A viewer process exits: the user closes the window, it crashes, or it
\* honours an earlier terminate().
ProcExit(p) ==
    /\ Alive(p)
    /\ proc' = [proc EXCEPT ![p] = "dead"]
    /\ UNCHANGED <<ffplay_feedback, ffplay_feedback_closed, stdin, callVars,
                   workerVars, run_res, ev, sendFailed, sessVars, rendVars>>

----------------------------------------------------------------------------
\* close_feedback_window()

\* proc.terminate(): a request; the process exits later.
Terminate(st) == IF st = "alive" THEN "terminating" ELSE st

\* close_feedback_window() with the latch assigned from the handle test.
CloseFeedbackWindowLatchIfHandle ==
    /\ ffplay_feedback' = None
    /\ ffplay_feedback_closed' = (ffplay_feedback # None)
    /\ IF ffplay_feedback = None
       THEN UNCHANGED <<proc, stdin>>
       ELSE /\ stdin' = [stdin EXCEPT ![ffplay_feedback] = "closed"]
            /\ proc' = [proc EXCEPT ![ffplay_feedback] = Terminate(@)]

\* close_feedback_window() returning before the latch is set when no handle
\* is held.
CloseFeedbackWindowEarlyReturn ==
    IF ffplay_feedback = None
    THEN UNCHANGED chanVars
    ELSE /\ ffplay_feedback' = None
         /\ ffplay_feedback_closed' = TRUE
         /\ stdin' = [stdin EXCEPT ![ffplay_feedback] = "closed"]
         /\ proc' = [proc EXCEPT ![ffplay_feedback] = Terminate(@)]

\* The effect of close_feedback_window() on the channel.
CloseFeedbackWindow ==
    /\ ffplay_feedback' = None
    /\ ffplay_feedback_closed' = TRUE
    /\ IF ffplay_feedback = None
       THEN UNCHANGED <<proc, stdin>>
       ELSE /\ stdin' = [stdin EXCEPT ![ffplay_feedback] = "closed"]
            /\ proc' = [proc EXCEPT ![ffplay_feedback] = Terminate(@)]

\* close() called by the driving thread.
Close ==
    /\ pc = "idle"
    /\ CloseFeedbackWindow
    /\ Return("api", "close", "ok", "none", FALSE)
    /\ UNCHANGED <<workerVars, sendFailed, sessVars, rendVars>>

\* shutdown_popup_worker() called by another thread, at any time.
ShutdownPopupWorker ==
    /\ CloseFeedbackWindow
    /\ UNCHANGED <<callVars, workerVars, run_res, ev, sendFailed, sessVars, rendVars>>

----------------------------------------------------------------------------
\* open_feedback_window()

\* The idempotence test with the poll() result inverted.
AlreadyOpenInverted == ffplay_feedback # None /\ ~Alive(ffplay_feedback)

\* Line 41: _ffplay_feedback is not None and _ffplay_feedback.proc.poll() is None
AlreadyOpen == ffplay_feedback # None /\ Alive(ffplay_feedback)

\* Lines 40-84: the idempotence check, the latch reset, the binary check and
\* the spawn; which_ is shutil.which("ffplay"), c the caller's context.
OpenFeedbackWindow(c, which_) ==
    /\ sendFailed' = FALSE
    /\ UNCHANGED <<workerVars, sessVars, rendVars>>
    /\ IF AlreadyOpen
       THEN /\ UNCHANGED chanVars
            /\ Return(c, "open", "ok", "already", FALSE)
       ELSE IF ~which_
       THEN /\ ffplay_feedback_closed' = FALSE
            /\ UNCHANGED <<ffplay_feedback, proc, stdin>>
            /\ Return(c, "open", "raise", "nobinary", FALSE)
       ELSE /\ Cardinality(Spawned) < MaxProcs
            /\ LET p == Cardinality(Spawned) + 1 IN
               /\ ffplay_feedback_closed' = FALSE
               /\ proc' = [proc EXCEPT ![p] = "alive"]
               /\ p_open' = p
               /\ pc' = "open_sleep"
               /\ ctx' = c
               /\ UNCHANGED <<ffplay_feedback, stdin, ff_send, sent, run_res, ev>>

\* Lines 85-99: after the startup grace sleep.
OpenAfterSleep ==
    /\ pc = "open_sleep"
    /\ IF Alive(p_open)
       THEN /\ ffplay_feedback' = p_open
            /\ UNCHANGED <<ffplay_feedback_closed, proc, stdin>>
            /\ Return(ctx, "open", "ok", "spawned", FALSE)
       ELSE /\ UNCHANGED chanVars
            /\ Return(ctx, "open", "raise", "exited", FALSE)
    /\ UNCHANGED <<workerVars, sendFailed, sessVars, rendVars>>

\* open() called by the driving thread.
Open ==
    /\ pc = "idle"
    /\ \E which_ \in BOOLEAN : OpenFeedbackWindow("api", which_)

\* show_slouch_popup(): the display and binary checks (lines 17-25), then
\* open_feedback_window() (line 27).
ShowSlouchPopupFrom(c) ==
    \E display \in BOOLEAN, which1 \in BOOLEAN, which2 \in BOOLEAN :
        IF ~display \/ ~which1
        THEN /\ sendFailed' = FALSE
             /\ UNCHANGED <<chanVars, workerVars, sessVars, rendVars>>
             /\ Return(c, "open", "raise",
                       IF ~display THEN "nodisplay" ELSE "nobinary_pre", FALSE)
        ELSE OpenFeedbackWindow(c, which2)

\* show_slouch_popup() called by the driving thread.
ShowSlouchPopup ==
    /\ pc = "idle"
    /\ ShowSlouchPopupFrom("api")

----------------------------------------------------------------------------
\* send_feedback_frame()

\* The except clause without the call of close_feedback_window().
SendFailureNoClose == UNCHANGED chanVars

\* Lines 152-154: except (BrokenPipeError, OSError): close_feedback_window()
SendFailure == CloseFeedbackWindow

\* send_feedback_frame() that reopens the window when the viewer has exited.
SendCheckRespawn(c) ==
    /\ UNCHANGED <<workerVars>>
    /\ IF ffplay_feedback_closed
       THEN /\ sendFailed' = TRUE
            /\ UNCHANGED chanVars
            /\ Return(c, "send", "false", "latched", sendFailed)
       ELSE IF ffplay_feedback = None
       THEN /\ sendFailed' = TRUE
            /\ UNCHANGED chanVars
            /\ Return(c, "send", "false", "nohandle", sendFailed)
       ELSE IF ~Alive(ffplay_feedback)
       THEN /\ Cardinality(Spawned) < MaxProcs
            /\ LET p == Cardinality(Spawned) + 1 IN
               /\ proc' = [proc EXCEPT ![p] = "alive"]
               /\ ffplay_feedback' = p
               /\ pc' = "send_io"
               /\ ctx' = c
               /\ ff_send' = p
               /\ sent' = SendArgs(c)
               /\ UNCHANGED <<ffplay_feedback_closed, stdin, p_open, run_res, ev,
                              sendFailed>>
       ELSE /\ pc' = "send_io"
            /\ ctx' = c
            /\ ff_send' = ffplay_feedback
            /\ sent' = SendArgs(c)
            /\ UNCHANGED <<chanVars, p_open, run_res, ev, sendFailed>>

\* A write() that sets the latch when it finds no handle.
SendCheckLatching(c) ==
    /\ UNCHANGED workerVars
    /\ IF ffplay_feedback_closed
       THEN /\ sendFailed' = TRUE
            /\ UNCHANGED chanVars
            /\ Return(c, "send", "false", "latched", sendFailed)
       ELSE IF ffplay_feedback = None
       THEN /\ sendFailed' = TRUE
            /\ CloseFeedbackWindow
            /\ Return(c, "send", "false", "nohandle", sendFailed)
       ELSE IF ~Alive(ffplay_feedback)
       THEN /\ sendFailed' = TRUE
            /\ UNCHANGED chanVars
            /\ Return(c, "send", "false", "exited", sendFailed)
       ELSE /\ pc' = "send_io"
            /\ ctx' = c
            /\ ff_send' = ffplay_feedback
            /\ sent' = SendArgs(c)
            /\ UNCHANGED <<chanVars, p_open, run_res, ev, sendFailed>>

\* Lines 133-137: the latch check and the liveness check, c the caller's
\* context.
SendCheck(c) ==
    /\ UNCHANGED <<chanVars, workerVars>>
    /\ IF ffplay_feedback_closed
       THEN /\ sendFailed' = TRUE
            /\ Return(c, "send", "false", "latched", sendFailed)
       ELSE IF ffplay_feedback = None
       THEN /\ sendFailed' = TRUE
            /\ Return(c, "send", "false", "nohandle", sendFailed)
       ELSE IF ~Alive(ffplay_feedback)
       THEN /\ sendFailed' = TRUE
            /\ Return(c, "send", "false", "exited", sendFailed)
       ELSE /\ pc' = "send_io"
            /\ ctx' = c
            /\ ff_send' = ffplay_feedback
            /\ sent' = SendArgs(c)
            /\ UNCHANGED <<p_open, run_res, ev, sendFailed>>

\* Lines 139-150 and 152-154: render, stdin.write, stdin.flush.  A write to
\* the pipe object that close_feedback_window() has closed raises ValueError,
\* which the except clause does not name; a write to a pipe whose reader has
\* exited raises BrokenPipeError; io_ok is the outcome of a write to a live
\* viewer.
SendIO ==
    /\ pc = "send_io"
    /\ UNCHANGED <<workerVars, sessVars, rendVars>>
    /\ \E io_ok \in BOOLEAN :
        IF stdin[ff_send] = "closed"
        THEN /\ UNCHANGED <<chanVars, sendFailed>>
             /\ Return(ctx, "send", "raise", "ValueError", sendFailed)
        ELSE IF ~Alive(ff_send) \/ ~io_ok
        THEN /\ SendFailure
             /\ sendFailed' = TRUE
             /\ Return(ctx, "send", "false", "iofail", sendFailed)
        ELSE /\ pc' = "send_poll"
             /\ UNCHANGED <<chanVars, ctx, p_open, ff_send, sent, run_res, ev, sendFailed>>

\* Line 151: return ff.proc.poll() is None
SendPoll ==
    /\ pc = "send_poll"
    /\ UNCHANGED <<chanVars, workerVars, sessVars, rendVars>>
    /\ IF Alive(ff_send)
       THEN /\ UNCHANGED sendFailed
            /\ Return(ctx, "send", "true", "ok", sendFailed)
       ELSE /\ sendFailed' = TRUE
            /\ Return(ctx, "send", "false", "exited_after", sendFailed)

\* write() called by the driving thread.
Send ==
    /\ pc = "idle"
    /\ SendCheck("api")
    /\ UNCHANGED <<sessVars, rendVars>>

----------------------------------------------------------------------------
\* FeedbackManager.run() (src/popup/feedback_manager.py)

\* run() is called.
Run ==
    /\ pc = "idle"
    /\ nrun < MaxRuns
    /\ pc' = "run_open"
    /\ run_res' = "running"
    /\ run_exit' = "none"
    /\ UNCHANGED <<chanVars, ctx, p_open, ff_send, sent, workerVars, ev, sendFailed,
                   detector, rendVars, overlay_lock, latest_frame, overlay, snapshot,
                   w_frame, w_out, published, w_age>>

\* Line 36: show_slouch_popup(initial_image)
RunOpen ==
    /\ pc = "run_open"
    /\ ShowSlouchPopupFrom("run_open")

\* Lines 48-56: the initial frame is sent; the result of the send is not
\* used.
RunInitialSend ==
    /\ pc = "run_init_send"
    /\ SendCheck("run_init")
    /\ UNCHANGED <<sessVars, rendVars>>

\* A worker whose first interval test waits: last starts as now, so that
\* now - last is zero at the first test.
FirstSinceNow ==
    LET now == Interval
        last == now
    IN  now - last

\* Line 61: last = 0.0, a time more than one interval before now.
FirstSince == Interval

\* Lines 38-45 and 58-92: the lock, the frame slot and the status the session
\* starts with; stop_inference is created and the worker thread is started.
RunStartWorker ==
    /\ pc = "run_start"
    /\ nrun < MaxRuns
    /\ nrun' = nrun + 1
    /\ stop_inference' = [stop_inference EXCEPT ![nrun + 1] = FALSE]
    /\ wpc' = [wpc EXCEPT ![nrun + 1] = "top"]
    /\ since' = [since EXCEPT ![nrun + 1] = FirstSince]
    /\ pc' = "pump_top"
    /\ overlay_lock' = "free"
    /\ latest_frame' = 0
    /\ overlay' = InitialStatus
    /\ published' = InitialStatus
    /\ w_age' = 0
    /\ UNCHANGED <<chanVars, ctx, p_open, ff_send, sent, run_res, ev, sendFailed,
                   detector, rendVars, snapshot, w_frame, w_out, run_exit>>

\* A pump that goes on to capture whatever should_continue_callback()
\* returned.
PumpTopCapturing ==
    /\ pc = "pump_top"
    /\ \E cont \in BOOLEAN :
        /\ pc' = "pump_capture"
        /\ run_exit' = IF cont THEN run_exit ELSE "stopped"
    /\ UNCHANGED <<chanVars, ctx, p_open, ff_send, sent, workerVars, run_res,
                   ev, sendFailed, detector, rendVars, overlay_lock,
                   latest_frame, overlay, snapshot, w_frame, w_out, published,
                   w_age>>

\* Lines 95-97: should_continue_callback() is polled.
PumpTop ==
    /\ pc = "pump_top"
    /\ \E cont \in BOOLEAN :
        /\ pc' = IF cont THEN "pump_capture" ELSE "run_finally"
        /\ run_exit' = IF cont THEN run_exit ELSE "stopped"
    /\ UNCHANGED <<chanVars, ctx, p_open, ff_send, sent, workerVars, run_res, ev,
                   sendFailed, detector, rendVars, overlay_lock, latest_frame, overlay,
                   snapshot, w_frame, w_out, published, w_age>>

\* Line 99: camera.capture_frame(), which may raise (caught at line 125).
PumpCapture ==
    /\ pc = "pump_capture"
    /\ \E captured \in BOOLEAN :
        /\ pc' = IF captured THEN "pump_lock" ELSE "run_finally"
        /\ run_exit' = IF captured THEN run_exit ELSE "capture"
    /\ UNCHANGED <<chanVars, ctx, p_open, ff_send, sent, workerVars, run_res, ev,
                   sendFailed, detector, rendVars, overlay_lock, latest_frame, overlay,
                   snapshot, w_frame, w_out, published, w_age>>

\* Line 100: with overlay_lock: the pump waits for the lock and takes it.
PumpLock ==
    /\ pc = "pump_lock"
    /\ overlay_lock = "free"
    /\ overlay_lock' = "pump"
    /\ pc' = "pump_locked"
    /\ UNCHANGED <<chanVars, ctx, p_open, ff_send, sent, workerVars, run_res, ev,
                   sendFailed, detector, rendVars, latest_frame, overlay, snapshot,
                   w_frame, w_out, published, w_age, run_exit>>

\* A pump that keeps the lock after its reads.
AfterSnapshotHeld == "pump"

\* Line 105 to 108: the with block ends and the lock is released.
AfterSnapshot == "free"

\* Lines 101-108: the captured frame is stored in the slot and the four
\* status fields are read, under the lock.
PumpSnapshot ==
    /\ pc = "pump_locked"
    /\ latest_frame' = IF latest_frame < MaxFrames THEN latest_frame + 1
                       ELSE MaxFrames
    /\ snapshot' = overlay
    /\ overlay_lock' = AfterSnapshot
    /\ pc' = "pump_send"
    /\ UNCHANGED <<chanVars, ctx, p_open, ff_send, sent, workerVars, run_res, ev,
                   sendFailed, detector, rendVars, overlay, w_frame, w_out, published,
                   w_age, run_exit>>

\* Lines 110-121: send_feedback_frame(...); the loop breaks when it is False.
PumpSend ==
    /\ pc = "pump_send"
    /\ SendCheck("run_pump")
    /\ UNCHANGED <<sessVars, rendVars>>

\* Line 123: time.sleep(self.pump_dt)
PumpSleep ==
    /\ pc = "pump_sleep"
    /\ pc' = "pump_top"
    /\ snapshot' = NoStatus
    /\ UNCHANGED <<chanVars, ctx, p_open, ff_send, sent, workerVars, run_res, ev,
                   sendFailed, detector, rendVars, overlay_lock, latest_frame, overlay,
                   w_frame, w_out, published, w_age, run_exit>>

\* Why the loop was left when neither line 97 nor line 99 left it: the write
\* of line 110 returned False or raised.
ExitReason ==
    IF run_exit # "none" THEN run_exit
    ELSE IF ev.res = "raise" THEN "write_raised"
    ELSE "write_false"

\* run() returns: its locals are no longer shared with the pump.
Discard ==
    /\ overlay_lock' = "free"
    /\ latest_frame' = 0
    /\ overlay' = NoStatus
    /\ published' = NoStatus
    /\ snapshot' = NoStatus
    /\ w_frame' = 0
    /\ w_out' = "none"
    /\ w_age' = 0

\* run() returning without setting the event.
RunFinallyNoStop ==
    /\ pc = "run_finally"
    /\ pc' = "idle"
    /\ run_res' = "returned"
    /\ run_exit' = ExitReason
    /\ Discard
    /\ UNCHANGED <<chanVars, ctx, p_open, ff_send, sent, nrun, stop_inference, wpc,
                   since, ev, sendFailed, detector, rendVars>>

\* run() closing the channel when it returns.
RunFinallyClosing ==
    /\ pc = "run_finally"
    /\ stop_inference' = [stop_inference EXCEPT ![nrun] = TRUE]
    /\ pc' = "idle"
    /\ run_res' = "returned"
    /\ run_exit' = ExitReason
    /\ Discard
    /\ CloseFeedbackWindow
    /\ UNCHANGED <<ctx, p_open, ff_send, sent, nrun, wpc, since, ev, sendFailed,
                   detector, rendVars>>

\* Lines 125-128: finally: stop_inference.set(); run() returns without
\* joining the worker thread.
RunFinally ==
    /\ pc = "run_finally"
    /\ stop_inference' = [stop_inference EXCEPT ![nrun] = TRUE]
    /\ pc' = "idle"
    /\ run_res' = "returned"
    /\ run_exit' = ExitReason
    /\ Discard
    /\ UNCHANGED <<chanVars, ctx, p_open, ff_send, sent, nrun, wpc, since, ev,
                   sendFailed, detector, rendVars>>

----------------------------------------------------------------------------
\* _infer_worker() of session s

\* A worker that closes the viewer itself when it finds the stop event set.
WorkerTopClosing(s) ==
    /\ wpc[s] = "top"
    /\ IF stop_inference[s]
       THEN /\ wpc' = [wpc EXCEPT ![s] = "done"]
            /\ since' = [since EXCEPT ![s] = Interval]
            /\ CloseFeedbackWindow
       ELSE /\ UNCHANGED chanVars
            /\ IF since[s] < Interval
               THEN UNCHANGED <<wpc, since>>
               ELSE /\ wpc' = [wpc EXCEPT ![s] = "read"]
                    /\ since' = [since EXCEPT ![s] = 0]
    /\ UNCHANGED <<callVars, nrun, stop_inference, run_res, ev,
                   sendFailed, sessVars, rendVars>>

\* A worker that tests the stop event only while it waits for the interval.
WorkerTopStopWhileWaiting(s) ==
    /\ wpc[s] = "top"
    /\ IF since[s] < Interval
       THEN IF stop_inference[s]
            THEN /\ wpc' = [wpc EXCEPT ![s] = "done"]
                 /\ since' = [since EXCEPT ![s] = Interval]
            ELSE UNCHANGED <<wpc, since>>
       ELSE /\ wpc' = [wpc EXCEPT ![s] = "read"]
            /\ since' = [since EXCEPT ![s] = 0]
    /\ UNCHANGED <<chanVars, callVars, nrun, stop_inference, run_res, ev,
                   sendFailed, sessVars, rendVars>>

\* Lines 62-67: the stop test, the interval test and last = now.  A worker
\* that fails the interval test sleeps and tests again.
WorkerTop(s) ==
    /\ wpc[s] = "top"
    /\ IF stop_inference[s]
       THEN /\ wpc' = [wpc EXCEPT ![s] = "done"]
            /\ since' = [since EXCEPT ![s] = Interval]
       ELSE IF since[s] < Interval
       THEN UNCHANGED <<wpc, since>>
       ELSE /\ wpc' = [wpc EXCEPT ![s] = "read"]
            /\ since' = [since EXCEPT ![s] = 0]
    /\ UNCHANGED <<chanVars, callVars, nrun, stop_inference, run_res, ev,
                   sendFailed, sessVars, rendVars>>

\* A worker that keeps the lock after reading the frame slot.
AfterFrameReadHeld == "worker"

\* Line 70 to 71: the with block ends and the lock is released.
AfterFrameRead == "free"

\* A worker that keeps the frame it was started with.
FrameReadSeeded == w_frame

\* Line 70: frame = latest_frame["img"]
FrameRead == latest_frame

\* Lines 69-72: the frame slot is read under the lock.
WorkerReadFrame(s) ==
    /\ wpc[s] = "read"
    /\ wpc' = [wpc EXCEPT ![s] = "analyze"]
    /\ IF Owns(s)
       THEN /\ overlay_lock = "free"
            /\ overlay_lock' = AfterFrameRead
            /\ w_frame' = FrameRead
       ELSE UNCHANGED <<overlay_lock, w_frame>>
    /\ UNCHANGED <<chanVars, callVars, nrun, stop_inference, since, run_res, ev,
                   sendFailed, detector, rendVars, latest_frame, overlay, snapshot,
                   w_out, published, w_age, run_exit>>

\* Lines 74-78 and 84: detector.analyze() returns or raises.
WorkerAnalyzeDone(s) ==
    /\ wpc[s] = "analyze"
    /\ wpc' = [wpc EXCEPT ![s] = "publish"]
    /\ IF Owns(s)
       THEN \E o \in Outcomes(detector) : w_out' = o
       ELSE UNCHANGED w_out
    /\ UNCHANGED <<chanVars, callVars, nrun, stop_inference, since, run_res, ev,
                   sendFailed, detector, rendVars, overlay_lock, latest_frame, overlay,
                   snapshot, w_frame, published, w_age, run_exit>>

\* The status update entered without taking the lock.
PublishEnterNoLock == UNCHANGED overlay_lock

\* Lines 79 and 85: with overlay_lock: the worker waits for the lock and
\* takes it.
PublishEnter ==
    /\ overlay_lock = "free"
    /\ overlay_lock' = "worker"

\* Lines 79-80 and 85-86: the lock is taken and overlay["kind"] assigned.
\* When result.get raises at line 80, the lock taken at line 79 is released
\* with nothing written and line 85 takes it again: one step here.
WorkerWriteKind(s) ==
    /\ wpc[s] = "publish"
    /\ wpc' = [wpc EXCEPT ![s] = "w_message"]
    /\ IF Owns(s)
       THEN /\ PublishEnter
            /\ overlay' = [overlay EXCEPT !.kind = StatusOf(w_out).kind]
       ELSE UNCHANGED <<overlay_lock, overlay>>
    /\ UNCHANGED <<chanVars, callVars, nrun, stop_inference, since, run_res, ev,
                   sendFailed, detector, rendVars, latest_frame, snapshot, w_frame,
                   w_out, published, w_age, run_exit>>

\* Lines 81 and 87: overlay["message"] is assigned.
WorkerWriteMessage(s) ==
    /\ wpc[s] = "w_message"
    /\ wpc' = [wpc EXCEPT ![s] = "w_raw"]
    /\ IF Owns(s)
       THEN overlay' = [overlay EXCEPT !.message = StatusOf(w_out).message]
       ELSE UNCHANGED overlay
    /\ UNCHANGED <<chanVars, callVars, nrun, stop_inference, since, run_res, ev,
                   sendFailed, detector, rendVars, overlay_lock, latest_frame,
                   snapshot, w_frame, w_out, published, w_age, run_exit>>

\* Lines 82 and 88: overlay["raw_output"] is assigned.
WorkerWriteRawOutput(s) ==
    /\ wpc[s] = "w_raw"
    /\ wpc' = [wpc EXCEPT ![s] = "w_next"]
    /\ IF Owns(s)
       THEN overlay' = [overlay EXCEPT !.raw_output = StatusOf(w_out).raw_output]
       ELSE UNCHANGED overlay
    /\ UNCHANGED <<chanVars, callVars, nrun, stop_inference, since, run_res, ev,
                   sendFailed, detector, rendVars, overlay_lock, latest_frame,
                   snapshot, w_frame, w_out, published, w_age, run_exit>>

\* A worker whose loop ends when the classifier has raised.
WorkerResumeUnlessRaised(o) == IF o = "raised" THEN "done" ELSE "top"

\* A worker whose loop ends with the first result of kind "good".
WorkerResumeUntilGood(o) == IF o = "good" THEN "done" ELSE "top"

\* Lines 83 and 89 to 62: after either branch the loop goes round again.
WorkerResume(o) == "top"

\* Lines 83 and 89: overlay["next_inference_at"] = time.time() + interval_s;
\* the with block ends, which completes the update and releases the lock.
WorkerWriteNext(s) ==
    /\ wpc[s] = "w_next"
    /\ IF Owns(s)
       THEN /\ wpc' = [wpc EXCEPT ![s] = WorkerResume(w_out)]
            /\ overlay' = [overlay EXCEPT !.next_inference_at = Interval]
            /\ published' = overlay'
            /\ overlay_lock' = IF overlay_lock = "worker" THEN "free"
                               ELSE overlay_lock
            /\ w_out' = "none"
       ELSE /\ wpc' = [wpc EXCEPT ![s] = "top"]
            /\ UNCHANGED <<overlay, published, overlay_lock, w_out>>
    /\ UNCHANGED <<chanVars, callVars, nrun, stop_inference, since, run_res, ev,
                   sendFailed, detector, rendVars, latest_frame, snapshot, w_frame,
                   w_age, run_exit>>

----------------------------------------------------------------------------
\* Time

\* next_inference_at - now of status st, n ticks later.
Age(st, n) ==
    IF st.kind = "none"
    THEN st
    ELSE [st EXCEPT !.next_inference_at = IF @ - n < -1 THEN -1 ELSE @ - n]

\* n ticks of wall-clock time pass.
Elapse(n) ==
    /\ since' = [s \in Sessions |->
                    IF s \notin Running THEN since[s]
                    ELSE IF since[s] + n > Interval THEN Interval
                    ELSE since[s] + n]
    /\ overlay' = Age(overlay, n)
    /\ snapshot' = Age(snapshot, n)
    /\ published' = Age(published, n)
    /\ w_age' = IF cur = 0 THEN w_age
                ELSE IF w_age + n > Interval THEN Interval
                ELSE w_age + n
    /\ UNCHANGED <<chanVars, callVars, nrun, stop_inference, wpc, run_res, ev,
                   sendFailed, detector, rendVars, overlay_lock, latest_frame, w_frame,
                   w_out, run_exit>>

\* One tick passes.
Tick == Elapse(1)

\* More than one interval passes.
LongTick == Elapse(Interval + 1)

----------------------------------------------------------------------------
\* The channel alone: the driving thread calls open/write/close directly.
ChannelNext ==
    \/ \E p \in Pids : ProcExit(p)
    \/ Close
    \/ ShutdownPopupWorker
    \/ Open
    \/ ShowSlouchPopup
    \/ OpenAfterSleep
    \/ Send
    \/ SendIO
    \/ SendPoll

\* run() is called on a FeedbackManager that has not started a worker yet.
RunFirst ==
    /\ nrun = 0
    /\ Run

\* A worker that is not asleep: it has a step to take without waiting for
\* the clock.
WorkerReady(s) ==
    \/ wpc[s] \in {"read", "analyze", "publish", "w_message", "w_raw", "w_next"}
    \/ wpc[s] = "top" /\ (stop_inference[s] \/ since[s] = Interval)

\* One tick passes while every worker is asleep and the lock is free: the
\* threads are scheduled at once and analyze() returns without delay.
PromptTick ==
    /\ \A s \in Sessions : ~WorkerReady(s)
    /\ overlay_lock = "free"
    /\ Tick

\* The steps of the driving thread inside run().
RunSteps ==
    \/ RunOpen
    \/ OpenAfterSleep
    \/ RunInitialSend
    \/ SendIO
    \/ SendPoll
    \/ RunStartWorker
    \/ PumpTop
    \/ PumpCapture
    \/ PumpLock
    \/ PumpSnapshot
    \/ PumpSend
    \/ PumpSleep
    \/ RunFinally

\* The steps of the worker threads.
WorkerSteps ==
    \/ \E s \in Sessions : WorkerTop(s)
    \/ \E s \in Sessions : WorkerReadFrame(s)
    \/ \E s \in Sessions : WorkerAnalyzeDone(s)
    \/ \E s \in Sessions : WorkerWriteKind(s)
    \/ \E s \in Sessions : WorkerWriteMessage(s)
    \/ \E s \in Sessions : WorkerWriteRawOutput(s)
    \/ \E s \in Sessions : WorkerWriteNext(s)

\* The coordinator's sessions: the driving thread calls run() and, between
\* sessions, close(); every channel call is the one run() makes.  Viewers
\* exit and another thread shuts the channel down at any time; time passes
\* in long pauses.
Next ==
    \/ \E p \in Pids : ProcExit(p)
    \/ Close
    \/ ShutdownPopupWorker
    \/ Run
    \/ RunSteps
    \/ WorkerSteps
    \/ LongTick

\* One session in the same environment: run() is called until a call has
\* started its worker.
SessionNext ==
    \/ \E p \in Pids : ProcExit(p)
    \/ ShutdownPopupWorker
    \/ RunFirst
    \/ RunSteps
    \/ WorkerSteps
    \/ LongTick

\* One session whose viewer stays and whose channel no other thread closes,
\* with time passing tick by tick.
PumpNext ==
    \/ RunFirst
    \/ RunSteps
    \/ WorkerSteps
    \/ Tick

\* The same session with prompt threads.
TimedNext ==
    \/ RunFirst
    \/ RunSteps
    \/ WorkerSteps
    \/ PromptTick

\* A FeedbackManager built with the detector that always answers "slouch".
RunInit ==
    /\ Init
    /\ detector = "slouch"

Spec == Init /\ [][ChannelNext]_vars

RunSpec == RunInit /\ [][Next]_vars

SessionSpec == RunInit /\ [][SessionNext]_vars

PumpSpec == Init /\ [][PumpNext]_vars

TimedSpec == Init /\ [][TimedNext]_vars

\* The steps of the worker thread of session s.
WorkerNext(s) ==
    \/ WorkerTop(s)
    \/ WorkerReadFrame(s)
    \/ WorkerAnalyzeDone(s)
    \/ WorkerWriteKind(s)
    \/ WorkerWriteMessage(s)
    \/ WorkerWriteRawOutput(s)
    \/ WorkerWriteNext(s)

\* The session with prompt threads, each worker thread being scheduled
\* again and again while it has a step to take and every analyze() call
\* returning (line 91: a thread of its own, started at once).
FairSpec ==
    /\ Init
    /\ [][TimedNext]_vars
    /\ \A s \in Sessions : WF_vars(WorkerNext(s))

\* Sessions one after another, the driving thread calling run() again as
\* soon as a call has returned, while the workers of earlier calls are still
\* on their way out.  No time passes: each worker starts its first inference
\* at once (last = 0.0).
HandoverNext ==
    \/ Run
    \/ RunSteps
    \/ WorkerSteps

HandoverSpec == RunInit /\ [][HandoverNext]_vars

\* The compositor alone.
RenderNext == RenderFeedbackFrame

RenderSpec == RenderInit /\ [][RenderNext]_vars

----------------------------------------------------------------------------
\* Properties of the viewer process channel.

\* A channel call of the driving thread completes in this step.
Completes(op) == ev'.n # ev.n /\ ev'.op = op

\* open_feedback_window() is entered in this step.
EntersOpenFeedbackWindow ==
    /\ pc \in {"idle", "run_open"}
    /\ \/ pc' = "open_sleep"
       \/ Completes("open") /\ ev'.why \notin {"nodisplay", "nobinary_pre"}

\* C1: once a write() has returned false, every later write() made with no
\* open() call in between returns false as well.
C1_WriteStaysFalse == (ev.op = "send" /\ ev.after) => ev.res = "false"

\* A second write() finds the viewer exited, with the latch still clear, after
\* an earlier write() had already returned false.
C1_Witness ==
    /\ ev.op = "send"
    /\ ev.after
    /\ ev.res = "false"
    /\ ev.why = "exited"
    /\ ~ev.latch

\* C2: a write() that returns false because the viewer had exited or because
\* the pipe write failed leaves the closed latch set.
C2_FailedWriteLatches ==
    (ev.op = "send" /\ ev.res = "false" /\ ev.why \in {"exited", "iofail"})
        => ev.latch

\* C3: write() never raises: it returns true or false in every channel state
\* and under every interleaving with a close() by another thread.
C3_WriteNeverRaises == ~(ev.op = "send" /\ ev.res = "raise")

\* C4: close() never raises, leaves the latch set and no handle held, and a
\* close() directly after a close() changes nothing of the channel.
C4_CloseIdempotentTotal ==
    [][Completes("close") =>
          /\ ev'.res = "ok"
          /\ ffplay_feedback_closed'
          /\ ffplay_feedback' = None
          /\ (ev.op = "close" => UNCHANGED chanVars)]_vars

\* close() has been called twice in a row on a channel that held a live
\* viewer, which is still terminating.
C4_Witness ==
    /\ ev.op = "close"
    /\ ev.prev = "close"
    /\ ev.latch
    /\ ~ev.open
    /\ \E p \in Pids : stdin[p] = "closed" /\ proc[p] = "terminating"

\* C5: open_feedback_window() entered while the channel is Open spawns
\* nothing, keeps the handle and the latch, and returns normally.
C5_OpenWhileOpenIsNoop ==
    [][(IsOpen /\ EntersOpenFeedbackWindow) =>
          /\ Completes("open")
          /\ ev'.res = "ok"
          /\ UNCHANGED chanVars]_vars

\* open() has returned from the idempotence check of an Open channel.
C5_Witness == ev.op = "open" /\ ev.why = "already" /\ ev.open /\ IsOpen

\* C6: the closed latch, once set, is cleared only by a step of an open()
\* call; write() and close() leave it set.
C6_LatchClearedOnlyByOpen ==
    [][(ffplay_feedback_closed /\ ~ffplay_feedback_closed')
          => EntersOpenFeedbackWindow]_vars

\* A write() made after a close() has returned false from the latch, which
\* is still set.
C6_Witness ==
    /\ ev.op = "send"
    /\ ev.why = "latched"
    /\ ev.prev = "close"
    /\ ffplay_feedback_closed

C8_AtMostOneLiveViewer == Cardinality(LiveProcs) <= 1

\* C9: an open() that raises leaves the channel not Open (no handle to a live
\* process), so that the next write() returns false.
C9_FailedOpenLeavesNotOpen == (ev.op = "open" /\ ev.res = "raise") => ~ev.open

\* C10: at most one detector.analyze() call is in flight, over any sequence of
\* run() sessions.
C10_AtMostOneInference == Cardinality(InFlight) <= 1

----------------------------------------------------------------------------
\* Properties of the coordinator.

\* The pump reads the status in this step (lines 102-105).
PumpReads == pc = "pump_locked" /\ pc' = "pump_send"

\* A write made by the pump loop (line 110) returns res in this step.
PumpWriteReturns(res) ==
    /\ Completes("send")
    /\ pc = "pump_send" \/ ctx = "run_pump"
    /\ ev'.res = res

\* Kind, message and raw_output of st are those a session starts with or
\* those of one classifier outcome.
IsWhole(st) ==
    LET f == [kind |-> st.kind, message |-> st.message,
              raw_output |-> st.raw_output]
    IN \/ f = [kind |-> "bad", message |-> "analyzing...", raw_output |-> ""]
       \/ \E d \in Detectors : \E o \in Outcomes(d) : f = StatusOf(o)

\* C11: every status snapshot the pump reads is whole: its four fields are
\* those of the most recently completed update, or the initial ones; fields of
\* two updates are never mixed.
C11_SnapshotWhole ==
    [][PumpReads => (snapshot' = published /\ IsWhole(snapshot'))]_vars

\* The pump holds a whole "good" snapshot while the worker, which has taken
\* the lock since, is half way through replacing the status with an error.
C11_Witness ==
    /\ pc = "pump_send"
    /\ snapshot.kind = "good"
    /\ snapshot.message = "good posture!"
    /\ cur # 0
    /\ wpc[cur] = "w_message"
    /\ overlay.kind = "error"
    /\ overlay.message = "good posture!"

\* C12: whichever way run() leaves the pump loop after the worker was started
\* (should_continue false, a write that is false, an exception from capture or
\* from the write), the worker's stop event is set when run() has returned:
\* only the worker of a run() in progress has its event clear.
C12_StopSetOnEveryExit ==
    \A s \in 1..nrun :
        ~stop_inference[s] => (s = nrun /\ run_res = "running" /\ pc # "idle")

\* run() has returned after its pump write raised, and the event is set.
C12_Witness ==
    /\ nrun > 0
    /\ pc = "idle"
    /\ run_res = "returned"
    /\ run_exit = "write_raised"
    /\ stop_inference[nrun]

C14_OnlyOpenFailurePropagates == run_res = "raised" => ev.op = "open"

\* The status a classifier exception leaves (lines 86-89).
ErrorStatus ==
    [kind |-> "error", message |-> "RuntimeError: failed", raw_output |-> "",
     next_inference_at |-> Interval]

\* C15: when analyze() raises, the worker replaces the status with kind
\* "error", the description of the exception, an empty raw_output and
\* next_inference_at = now + interval, and goes round its loop again; it
\* starts a classifier call only when the interval test passes, and it leaves
\* its loop only when the stop event is set.
C15_ClassifierErrorAbsorbed ==
    [][\A s \in Sessions :
         /\ (s = cur /\ wpc[s] = "w_next" /\ w_out = "raised" /\ wpc'[s] # "w_next")
            => (overlay' = ErrorStatus /\ wpc'[s] = "top")
         /\ (wpc[s] # "done" /\ wpc'[s] = "done")
            => (stop_inference[s] /\ wpc[s] = "top")
         /\ (wpc[s] = "top" /\ wpc'[s] = "read") => since[s] = Interval]_vars

\* After an update that recorded a classifier exception the worker is inside
\* its next classifier call.
C15_Witness ==
    /\ cur # 0
    /\ published.kind = "error"
    /\ published.raw_output = ""
    /\ wpc[cur] = "analyze"
    /\ ~stop_inference[cur]

SlouchStatus == overlay.kind = "bad" /\ overlay.message = "slouch"

C18_LockOnlyForCopy ==
    /\ overlay_lock = "worker"
       => (cur # 0 /\ wpc[cur] \in {"w_message", "w_raw", "w_next"})
    /\ overlay_lock = "pump" => pc = "pump_locked"

\* The pump is writing to the viewer while the worker holds the lock for
\* its status update.
C18_Witness ==
    /\ overlay_lock = "worker"
    /\ pc = "send_io"
    /\ ctx = "run_pump"

\* The pump waits for a lock that is not free.
PumpBlocked == pc = "pump_lock" /\ overlay_lock # "free"

C21_IntervalSinceCompletion ==
    [][\A s \in Sessions :
          (s = cur /\ wpc[s] = "top" /\ ~stop_inference[s]
             /\ published.next_inference_at > 0)
          => wpc'[s] = "top"]_vars

----------------------------------------------------------------------------
\* Properties of the compositor.

\* The three presentations: accent colour, headline, icon.
Presentation(kind) ==
    CASE kind = "good" -> <<"green", "GOOD POSTURE", "checkmark">>
      [] kind = "bad" -> <<"red", "BAD POSTURE", "cross">>
      [] OTHER -> <<"amber", "MODEL ERROR", "triangle">>

\* C22: the compositor maps kind to one presentation: "good" to the green
\* GOOD POSTURE headline with the checkmark, "bad" to the red BAD POSTURE
\* headline with the cross, every other kind to the amber MODEL ERROR
\* headline with the triangle; headline, colour and icon are of the same row
\* and depend on kind alone.
C22_KindToPresentation ==
    r_pc = "returned"
    => <<r_ret.color, r_ret.headline, r_ret.icon>> = Presentation(r_args.kind)

C22_Witness ==
    /\ r_pc = "returned"
    /\ r_args.kind = "other"
    /\ r_ret.headline = "MODEL ERROR"
    /\ r_ret.icon = "triangle"
    /\ r_args.message.words = <<20>>

\* The words of a message that are left after cleaning.
Cleaned(message) ==
    IF message.none THEN <<>>
    ELSE SelectSeq(message.words, LAMBDA n : n # 0)

RECURSIVE Flatten(_)
Flatten(lines) ==
    IF lines = <<>> THEN <<>> ELSE Head(lines) \o Flatten(Tail(lines))

\* C23: for any message the compositor draws at most 2 message lines and
\* does not raise: a cleaned message of more than 45 characters is wrapped
\* at word boundaries and the lines after the second are dropped; a message
\* that is missing, empty, or empty after cleaning draws no line.
C23_AtMostTwoLines ==
    /\ r_pc # "raised"
    /\ r_pc = "returned" =>
        LET words == Cleaned(r_args.message)
            drawn == Flatten(r_ret.lines)
        IN  /\ Len(r_ret.lines) <= 2
            /\ Len(drawn) <= Len(words)
            /\ drawn = SubSeq(words, 1, Len(drawn))
            /\ (words = <<>>) <=> (r_ret.lines = <<>>)
            /\ TextLen(words) <= max_chars => drawn = words
            /\ Len(r_ret.lines) < 2 => drawn = words
            /\ \A i \in 1..Len(r_ret.lines) :
                LET through == Len(Flatten(SubSeq(r_ret.lines, 1, i)))
                IN  /\ r_ret.lines[i] # <<>>
                    /\ \/ Len(r_ret.lines[i]) = 1
                       \/ TextLen(r_ret.lines[i]) <= max_chars
                    /\ TextLen(words) > max_chars /\ through < Len(words)
                         => TextLen(r_ret.lines[i]) + words[through + 1] + 1
                              > max_chars

C23_Witness ==
    /\ r_pc = "returned"
    /\ r_args.message.words = <<46, 20, 46>>
    /\ r_ret.lines = <<<<46>>, <<20>>>>

\* C24: a countdown that is zero or negative is rendered as zero: the "Next"
\* label never shows a negative number.
C24_CountdownNeverNegative ==
    r_pc = "returned" =>
        /\ ~r_ret.countdown_text.minus
        /\ r_args.countdown_secs <= 0 => r_ret.countdown_text.tenths = 0

\* C25: for every kind and every size of the source frame the encoded
\* canvas has exactly the configured width and height.
C25_CanvasSize ==
    r_pc = "returned" => r_ret.size = r_args.thumbnail_size

C25_Witness ==
    /\ r_pc = "returned"
    /\ r_args.image = <<3, 1>>
    /\ r_args.thumbnail_size = <<2, 3>>
    /\ r_ret.size = <<2, 3>>
    /\ r_args.kind = "error"

\* C26: the frame pasted onto the canvas is never larger than the source
\* frame and never larger than the canvas, in either dimension, and it is
\* centred: the paste offsets are floor((canvas - pasted) / 2) and not
\* negative.
C26_ScaledDownAndCentred ==
    r_pc = "returned" =>
        \A i \in 1..2 :
            /\ r_ret.img[i] >= 1
            /\ r_ret.img[i] <= r_args.image[i]
            /\ r_ret.img[i] <= r_args.thumbnail_size[i]
            /\ r_ret.paste[i] >= 0
            /\ 2 * r_ret.paste[i] <= r_args.thumbnail_size[i] - r_ret.img[i]
            /\ 2 * r_ret.paste[i] + 1 >= r_args.thumbnail_size[i] - r_ret.img[i]

C26_Witness ==
    /\ r_pc = "returned"
    /\ r_args.image = <<3, 2>>
    /\ r_args.thumbnail_size = <<2, 3>>
    /\ r_ret.img = <<2, 1>>
    /\ r_ret.paste = <<0, 1>>

\* C27: a font file that is missing or cannot be loaded does not fail the
\* call: each such font is the built-in default and the encoded frame is
\* returned.
C27_FontFallback ==
    /\ r_pc # "raised"
    /\ r_pc = "returned" =>
        /\ r_ret.result = "bytes"
        /\ \A i \in 1..3 :
            LET path == IF r_args.kind = "good" /\ i < 3 THEN "honk"
                        ELSE "glitch"
            IN  r_ret.fonts[i] = IF path \in r_args.assets THEN "truetype"
                                 ELSE "default"

C27_Witness ==
    /\ r_pc = "returned"
    /\ r_args.assets = {}
    /\ r_ret.result = "bytes"
    /\ r_ret.fonts = <<"default", "default", "default">>

----------------------------------------------------------------------------
\* Properties of the frames run() sends and stores.

\* The initial frame with the status a session starts with.
InitialArgs ==
    [image |-> 0, kind |-> "bad", message |-> "analyzing...",
     raw_output |-> "", countdown_secs |-> 0]

C29_PollOncePerTick ==
    [][/\ (pc' = "pump_capture" /\ pc # pc') => pc = "pump_top"
       /\ (pc = "pump_top" /\ pc' # pc)
          => /\ pc' \in {"pump_capture", "run_finally"}
             /\ UNCHANGED <<latest_frame, ev, sent>>
       /\ (pc' = "pump_top" /\ pc # pc')
          => (pc = "pump_sleep" \/ (pc = "run_start" /\ nrun' = nrun + 1))
       /\ (pc = "pump_top" /\ pc' = "run_finally") => run_exit' = "stopped"
       /\ run_exit = "stopped"
          => /\ pc \in {"run_finally", "idle"}
             /\ pc' \in {"run_finally", "idle"}
             /\ UNCHANGED <<ev, sent>>
             /\ latest_frame' \in {latest_frame, 0}]_vars

C29_Witness ==
    /\ pc = "idle"
    /\ run_res = "returned"
    /\ run_exit = "stopped"
    /\ ev.op = "send"
    /\ ev.res = "true"
    /\ ev.prev = "send"

\* C30: the frame handed to a classifier call is the content of the frame
\* slot when the worker read it, the last frame the pump has stored or the
\* initial frame if it has stored none; the pump stores a frame on every
\* tick whether or not the worker has read the one before.
C30_WorkerReadsLatestFrame ==
    [][/\ \A s \in Sessions : s = cur =>
            /\ (wpc[s] = "read" /\ wpc'[s] # "read")
               => (wpc'[s] = "analyze" /\ w_frame' = latest_frame)
            /\ (wpc[s] = "analyze" /\ cur' = s) => w_frame' = w_frame
       /\ (pc = "pump_locked" /\ pc' # pc)
          => latest_frame' = IF latest_frame < MaxFrames THEN latest_frame + 1
                             ELSE MaxFrames
       /\ (cur # 0 /\ cur' = cur /\ latest_frame' # latest_frame)
          => pc = "pump_locked"]_vars

C30_Witness ==
    /\ cur # 0
    /\ wpc[cur] = "analyze"
    /\ w_frame = 1
    /\ latest_frame = MaxFrames
    /\ pc = "pump_sleep"

\* C31: every countdown run() passes on is max(0, next_inference_at - now) for
\* the next_inference_at of the snapshot read in the same tick, so it is never
\* negative; and every completed inference, whatever its outcome, sets
\* next_inference_at to the time of completion plus the interval.
C31_CountdownFromSnapshot ==
    [][/\ (pc = "pump_send" /\ pc' = "send_io") =>
            /\ sent'.countdown_secs =
                  (IF snapshot.next_inference_at > 0
                   THEN snapshot.next_inference_at ELSE 0)
            /\ sent'.countdown_secs >= 0
            /\ snapshot.kind # "none"
       /\ \A s \in Sessions :
            (s = cur /\ wpc[s] = "w_next" /\ wpc'[s] # "w_next") =>
                /\ overlay'.next_inference_at = Interval
                /\ published'.next_inference_at = Interval
                /\ w_out \in Outcomes(detector)]_vars

\* A tick whose snapshot is overdue (the inference of an error status is late)
\* sends the countdown 0.
C31_Witness ==
    /\ pc = "send_io"
    /\ ctx = "run_pump"
    /\ snapshot.kind = "error"
    /\ snapshot.next_inference_at < 0
    /\ sent.countdown_secs = 0

\* The statuses a malformed result leaves: of a mapping without a kind, and
\* of a result that is not a mapping.
NoKindStatus ==
    [kind |-> "error", message |-> "error", raw_output |-> "",
     next_inference_at |-> Interval]

NotMappingStatus ==
    [kind |-> "error",
     message |-> "AttributeError: 'NoneType' object has no attribute 'get'",
     raw_output |-> "", next_inference_at |-> Interval]

\* C32: a malformed classifier result becomes an error status: a result whose
\* kind is missing or empty gives kind "error", a result that is not a mapping
\* is handled like a classifier exception (kind "error" with the description
\* of the exception); after either the worker goes round its loop again.
C32_MalformedResultIsError ==
    [][\A s \in Sessions :
         (s = cur /\ wpc[s] = "w_next" /\ wpc'[s] # "w_next") =>
            /\ w_out = "nokind" =>
                  (overlay' = NoKindStatus /\ published' = NoKindStatus)
            /\ w_out = "notmapping" =>
                  (overlay' = NotMappingStatus /\ published' = NotMappingStatus)
            /\ w_out \in {"nokind", "notmapping"} => wpc'[s] = "top"]_vars

\* After an update for a result that was not a mapping the worker has gone
\* on, and is half way through the update for a result without a kind.
C32_Witness ==
    /\ detector = "malformed"
    /\ cur # 0
    /\ ~stop_inference[cur]
    /\ published = [NotMappingStatus EXCEPT !.next_inference_at = 0]
    /\ wpc[cur] = "w_message"
    /\ w_out = "nokind"
    /\ overlay.kind = "error"
    /\ overlay.message = NotMappingStatus.message

----------------------------------------------------------------------------
\* Further properties of the viewer process channel and of the worker.

\* C33: write() returns true exactly when the latch was clear, a handle was
\* held and its process alive before the write, the pipe write and the flush
\* succeeded and the process was still alive at the check after the flush; in
\* every other case it returns false.
C33_WriteTrueExactly ==
    [][Completes("send") =>
         /\ ev'.res = "true" <=>
               (pc = "send_poll" /\ Alive(ff_send) /\ ff_send # None)
         /\ ev'.res # "true" => ev'.res = "false"]_vars

\* C34: the worker leaves its loop only after the stop event has been set, and
\* only at the test of line 62: while the event is clear no result, no
\* exception and no step of the pump ends it, and a worker that has left its
\* loop stays out.
C34_WorkerLeavesOnlyOnStop ==
    [][\A s \in Sessions :
         /\ (wpc[s] # "done" /\ wpc'[s] = "done") =>
               (stop_inference[s] /\ wpc[s] = "top")
         /\ (wpc[s] \notin {"none", "done"} /\ ~stop_inference[s]) =>
               wpc'[s] \notin {"none", "done"}
         /\ wpc[s] = "done" => (wpc'[s] = "done" /\ stop_inference'[s])]_vars

\* The worker of a session whose classifier raises on every call has left its
\* loop after run() returned because its caller stopped it.
C34_Witness ==
    /\ detector = "raising"
    /\ nrun = 1
    /\ wpc[1] = "done"
    /\ stop_inference[1]
    /\ run_exit = "stopped"
    /\ pc = "idle"

\* A worker thread takes a step of its loop.
WorkerStep == \E s \in Sessions : wpc[s] # "none" /\ wpc'[s] # wpc[s]

\* C35: the worker never touches the viewer channel: no step of it changes the
\* handle, the latch, a viewer process or its pipe, and none is a step of an
\* open(), write() or close() call; every such change is made by the driving
\* thread or by the thread that shuts the channel down.
C35_WorkerNeverTouchesChannel ==
    [][/\ WorkerStep => UNCHANGED <<chanVars, callVars, ev, sendFailed, run_res>>
       /\ (ffplay_feedback' # ffplay_feedback
           \/ ffplay_feedback_closed' # ffplay_feedback_closed
           \/ stdin' # stdin) => wpc' = wpc]_vars

\* The worker has left its loop after run() returned, and the viewer run()
\* opened is still held and alive.
C35_Witness ==
    /\ nrun = 1
    /\ wpc[1] = "done"
    /\ pc = "idle"
    /\ run_res = "returned"
    /\ IsOpen
    /\ ~ffplay_feedback_closed

\* C36: status and frame slot do not outlive their session: a run() starts its
\* worker on the initial "analyzing" status and an empty slot of its own, and
\* a step of a worker that an earlier run() started, taken after that run()
\* returned, changes neither the status nor the frame slot nor the lock of a
\* later run(), nor what its pump has read.
C36_NoPersistenceAcrossSessions ==
    [][/\ nrun' # nrun =>
            /\ overlay' = InitialStatus
            /\ latest_frame' = 0
            /\ overlay_lock' = "free"
       /\ \A s \in Sessions :
            (s # cur /\ wpc[s] # "none" /\ wpc'[s] # wpc[s]) =>
                UNCHANGED <<overlay, latest_frame, overlay_lock, snapshot,
                            published, sent>>
       /\ cur = 0 => overlay' \in {NoStatus, InitialStatus}]_vars

\* The second run() is pumping its initial status, with one frame captured,
\* while the worker of the first run(), whose inference has returned after
\* that run() did, is at the end of its update.
C36_Witness ==
    /\ nrun = 2
    /\ cur = 2
    /\ wpc[1] = "w_next"
    /\ wpc[2] = "top"
    /\ overlay = InitialStatus
    /\ latest_frame = 1
    /\ pc = "pump_send"
    /\ snapshot = InitialStatus

\* C37: once the stop event is set the worker leaves its loop, given that the
\* classifier call it is in returns; and it begins at most one classifier call
\* after the event was set, because the event is tested at the top of every
\* iteration: a set event is never cleared, a worker at the top with the event
\* set goes nowhere but out, and a classifier call is begun only by an
\* iteration that passed the test.
C37_StopEndsWorker ==
    /\ [][\A s \in Sessions :
            /\ (stop_inference[s] /\ wpc[s] # "none") => stop_inference'[s]
            /\ (stop_inference[s] /\ wpc[s] = "top") => wpc'[s] \in {"top", "done"}
            /\ (wpc'[s] = "read" /\ wpc[s] # "read") =>
                  (wpc[s] = "top" /\ ~stop_inference[s])
            /\ (wpc'[s] = "analyze" /\ wpc[s] # "analyze") => wpc[s] = "read"
            /\ (wpc[s] \in {"analyze", "publish", "w_message", "w_raw", "w_next"}
                /\ wpc'[s] # wpc[s]) =>
                  wpc'[s] \in {"publish", "w_message", "w_raw", "w_next", "top"}]_vars
    /\ \A s \in Sessions :
          (stop_inference[s] /\ wpc[s] # "none") ~> (wpc[s] = "done")

\* The stop event was set after the worker had passed the test: the worker is
\* inside the one classifier call it begins after the event.
C37_Witness ==
    /\ nrun = 1
    /\ stop_inference[1]
    /\ wpc[1] = "analyze"
    /\ since[1] = 0
    /\ pc = "idle"

C39_WriteBeforeOpen ==
    [][(/\ pc = "idle"
        /\ Spawned = {}
        /\ ffplay_feedback = None
        /\ ~ffplay_feedback_closed
        /\ (pc' = "send_io" \/ Completes("send"))) =>
           /\ Completes("send")
           /\ ev'.res = "false"
           /\ ev'.why = "nohandle"
           /\ pc' = "idle"
           /\ ff_send' = None
           /\ sent' = NoSent
           /\ UNCHANGED chanVars]_vars

\* The first call ever made on the channel was a write(); it has returned
\* false and the channel is as it was constructed.
C39_Witness ==
    /\ ev.op = "send"
    /\ ev.res = "false"
    /\ ev.why = "nohandle"
    /\ ev.prev = "none"
    /\ Spawned = {}
    /\ ffplay_feedback = None
    /\ ~ffplay_feedback_closed
    /\ pc = "idle"

\* C40: the word-wrap of the compositor, for a cleaned message of more than 45
\* characters, keeps the words in order and loses none before the cut: the
\* drawn lines, joined, are a prefix of the words of the message (all of them
\* when fewer than two lines are drawn), and each drawn line is at most 45
\* characters long unless it is a single word that is itself longer.
C40_WrapKeepsWordOrder ==
    (r_pc = "returned" /\ TextLen(Cleaned(r_args.message)) > max_chars) =>
        LET words == Cleaned(r_args.message)
            drawn == Flatten(r_ret.lines)
        IN  /\ drawn # <<>>
            /\ Len(drawn) <= Len(words)
            /\ \A j \in 1..Len(drawn) : drawn[j] = words[j]
            /\ Len(r_ret.lines) = 1 => Len(drawn) = Len(words)
            /\ \A i \in 1..Len(r_ret.lines) :
                  \/ TextLen(r_ret.lines[i]) <= max_chars
                  \/ Len(r_ret.lines[i]) = 1 /\ r_ret.lines[i][1] > max_chars

\* Two words share the first line and a word longer than a line has the
\* second line to itself.
C40_Witness ==
    /\ r_pc = "returned"
    /\ r_args.message.words = <<20, 20, 46>>
    /\ r_ret.lines = <<<<20, 20>>, <<46>>>>

====
